---- MODULE Spec2Model ----
(***************************************************************************)
(* A model of utils::SyncPoint (src/sync_point.cc, src/sync_point.h): the  *)
(* state of SyncPoint::Impl, one action per member function, and the       *)
(* threads that call them.  Every region the code runs under mutex_ is one *)
(* atomic action guarded by the mutex being free; cv_.wait gives the mutex *)
(* up and parks the thread until a notify_all (or a spurious wake-up).     *)
(* A callback is caller code: its body is a short program of coordinator   *)
(* calls, chosen when the callback is invoked.                             *)
(***************************************************************************)
EXTENDS Integers, Sequences, FiniteSets, TLC

VARIABLES
  enabled_,               \* std::atomic<bool> enabled_
  num_callbacks_running_, \* int num_callbacks_running_
  successors_,            \* point -> the points loaded as its successors
  predecessors_,          \* point -> the points loaded as its predecessors
  callbacks_,             \* the points that have a callback registered
  markers_,               \* point -> the points it marks
  marked_thread_id_,      \* point -> the recorded thread, or NoThread
  cleared_points_,        \* std::unordered_set<std::string> cleared_points_
  mutex_,                 \* the thread that holds mutex_, or NoThread
  stack,                  \* thread -> its call stack, innermost frame last
  test,                   \* "free", or the test of sync_point_test.cc being run
  ops,                    \* coordinator calls made so far by free threads
  last,                   \* the latest Process call that returned early
  buf,                    \* what the tests' threads and callbacks have written
  m                       \* the holder of the tests' own std::mutex m

vars == <<enabled_, num_callbacks_running_, successors_, predecessors_,
          callbacks_, markers_, marked_thread_id_, cleared_points_, mutex_,
          stack, test, ops, last, buf, m>>

coord == <<enabled_, num_callbacks_running_, successors_, predecessors_,
           callbacks_, markers_, marked_thread_id_, cleared_points_>>

graph == <<successors_, predecessors_, markers_>>

(***************************************************************************)
(* Bounds and the sets the inputs are drawn from.                          *)
(***************************************************************************)
MaxOps == 3

NoThread == 0

Threads == 1..4

FreeThreads == {1, 2}

FreePoints == {"P", "S", "X"}

\* The points in play: those of the test being run, else the free threads'.
Points ==
  CASE test = "Dependency" ->
         {"Step1", "Step2", "Step3", "Step4", "Step5", "Step6"}
    [] test = "Mark1" -> {"Mark1Thread1", "DummyCommon"}
    [] test = "Mark2" -> {"Marker", "MarkedPoint", "Thread1First"}
    [] OTHER -> FreePoints

ThreadName(t) == CASE t = 1 -> "Thread1->"
                   [] t = 2 -> "Thread2->"
                   [] t = 3 -> "Thread3->"
                   [] OTHER -> "Main->"

(***************************************************************************)
(* SyncPointPair lists.  An edge is <<predecessor, successor>>.            *)
(***************************************************************************)
GraphNames == {"marker", "markchain", "chain", "cycle", "self"}

Dependencies(g) ==
  CASE g = "marker"    -> {<<"X", "S">>}
    [] g = "markchain" -> {}
    [] g = "chain"     -> {<<"P", "S">>, <<"S", "X">>}
    [] g = "cycle"     -> {<<"P", "S">>, <<"S", "P">>}
    [] g = "self"      -> {<<"X", "X">>}
    [] g = "Dependency" -> {<<"Step1", "Step2">>, <<"Step3", "Step4">>,
                            <<"Step5", "Step6">>}
    [] g = "Mark1"     -> {}
    [] g = "Mark2"     -> {<<"Thread1First", "MarkedPoint">>}
    [] OTHER           -> {}

Markers(g) ==
  CASE g = "marker"    -> {<<"P", "S">>}
    [] g = "markchain" -> {<<"P", "S">>, <<"S", "X">>}
    [] g = "Mark1"     -> {<<"Mark1Thread1", "DummyCommon">>}
    [] g = "Mark2"     -> {<<"Marker", "MarkedPoint">>}
    [] OTHER           -> {}

(***************************************************************************)
(* Frames and instructions.                                                *)
(***************************************************************************)
Instr(op, arg) == [op |-> op, arg |-> arg]

ProcessFrame(p, pc) == [k |-> "Process", point |-> p, pc |-> pc, prog |-> <<>>]

RemoveFrame(p, pc) == [k |-> "Remove", point |-> p, pc |-> pc, prog |-> <<>>]

CodeFrame(prog) == [k |-> "Code", point |-> "", pc |-> "", prog |-> prog]

Top(t) == stack[t][Len(stack[t])]

Pop(s) == SubSeq(s, 1, Len(s) - 1)

NoEvent == [kind |-> "none", thread |-> NoThread, point |-> ""]

Event(kind, t, p) == [kind |-> kind, thread |-> t, point |-> p]

(***************************************************************************)
(* The callbacks and thread functions of sync_point_test.cc.  A test's     *)
(* setup (SetCallBack, LoadDependencyAndMarkers, EnableProcessing) runs on *)
(* the main thread before any worker starts, so it is part of the test's   *)
(* initial state.  "Chain" is the three-point chain P -> S -> X fired by   *)
(* three threads, each point with a callback that records its caller.      *)
(* "Remove" is two threads firing P and X, both with a callback, while two *)
(* other threads call ClearCallBack(P) and ClearAllCallBacks.              *)
(***************************************************************************)
TestNames == {"Dependency", "Mark1", "Mark2", "Chain", "Remove"}

TestCallbacks(tn) ==
  CASE tn = "Dependency" -> {"Step6"}
    [] tn = "Mark1"      -> {"DummyCommon"}
    [] tn = "Mark2"      -> {"MarkedPoint"}
    [] tn = "Chain"      -> {"P", "S", "X"}
    [] tn = "Remove"     -> {"P", "X"}
    [] OTHER             -> {}

TestGraph(tn) ==
  CASE tn = "Chain"  -> "chain"
    [] tn = "Remove" -> "none"
    [] OTHER         -> tn

TestBody(tn, p) ==
  IF tn = "Dependency"
  THEN <<Instr("LockM", ""), Instr("Write", "End"), Instr("UnlockM", "")>>
  ELSE <<Instr("WriteSelf", "")>>

Program(tn, t) ==
  CASE tn = "Dependency" /\ t = 1 ->
         <<Instr("Fire", "Step4"), Instr("LockM", ""),
           Instr("Write", "Thread1->"), Instr("Fire", "Step5"),
           Instr("UnlockM", "")>>
    [] tn = "Dependency" /\ t = 2 ->
         <<Instr("Fire", "Step2"), Instr("LockM", ""),
           Instr("Write", "Thread2->"), Instr("Fire", "Step3"),
           Instr("UnlockM", "")>>
    [] tn = "Dependency" /\ t = 3 ->
         <<Instr("LockM", ""), Instr("Write", "Thread3->"),
           Instr("Fire", "Step1"), Instr("UnlockM", "")>>
    [] tn = "Dependency" /\ t = 4 -> <<Instr("Fire", "Step6")>>
    [] tn = "Mark1" /\ t = 1 ->
         <<Instr("Fire", "Mark1Thread1"), Instr("Fire", "DummyCommon")>>
    [] tn = "Mark1" /\ t = 2 -> <<Instr("Fire", "DummyCommon")>>
    [] tn = "Mark2" /\ t = 1 ->
         <<Instr("Fire", "MarkedPoint"), Instr("Fire", "Thread1First")>>
    [] tn = "Mark2" /\ t = 2 ->
         <<Instr("Fire", "Marker"), Instr("Fire", "MarkedPoint")>>
    [] tn = "Chain" /\ t = 1 -> <<Instr("Fire", "X")>>
    [] tn = "Chain" /\ t = 2 -> <<Instr("Fire", "S")>>
    [] tn = "Chain" /\ t = 3 -> <<Instr("Fire", "P")>>
    [] tn = "Remove" /\ t = 1 -> <<Instr("Fire", "P")>>
    [] tn = "Remove" /\ t = 2 -> <<Instr("ClearCallBack", "P")>>
    [] tn = "Remove" /\ t = 3 -> <<Instr("ClearAllCallBacks", "")>>
    [] tn = "Remove" /\ t = 4 -> <<Instr("Fire", "X")>>
    [] OTHER -> <<>>

(***************************************************************************)
(* What a free thread may call, and what a callback may do when no test    *)
(* fixes it: nothing, or one coordinator call.                             *)
(***************************************************************************)
FreeInstrs ==
  {Instr(op, p) : op \in {"Fire", "SetCallBack", "ClearCallBack"},
                  p \in FreePoints}
  \cup {Instr("Load", g) : g \in GraphNames}
  \cup {Instr(op, "") : op \in {"ClearAllCallBacks", "ClearTrace",
                                "Enable", "Disable"}}

Bodies(p) ==
  IF test = "free"
  THEN {<<>>} \cup (IF ops < MaxOps THEN {<<i>> : i \in FreeInstrs} ELSE {})
  ELSE {TestBody(test, p)}

\* Thread t is at a call of instruction i: a free thread that is idle, or a
\* thread whose innermost frame is code with i next.
NextInstr(t, i) ==
  \/ /\ test = "free"
     /\ t \in FreeThreads
     /\ stack[t] = <<>>
     /\ ops < MaxOps
     /\ i \in FreeInstrs
  \/ /\ stack[t] # <<>>
     /\ Top(t).k = "Code"
     /\ Top(t).prog # <<>>
     /\ Head(Top(t).prog) = i

\* t's stack once the call has returned.
Cont(t) ==
  IF stack[t] = <<>> THEN <<>>
  ELSE Append(Pop(stack[t]), CodeFrame(Tail(Top(t).prog)))

Count(t) == IF stack[t] = <<>> THEN ops + 1 ELSE ops

(***************************************************************************)
(* SyncPoint::Impl's helpers.                                              *)
(***************************************************************************)
LoadedSuccessors(deps, marks) ==
  [p \in Points |-> {e[2] : e \in {d \in deps \cup marks : d[1] = p}}]

\* A load that installs a marker edge in markers_ and successors_ only.
LoadedPredecessorsOfDependencies(deps, marks) ==
  [p \in Points |-> {e[1] : e \in {d \in deps : d[2] = p}}]

LoadedPredecessors(deps, marks) ==
  [p \in Points |-> {e[1] : e \in {d \in deps \cup marks : d[2] = p}}]

LoadedMarkers(marks) ==
  [p \in Points |-> {e[2] : e \in {d \in marks : d[1] = p}}]

NoRecords == [p \in Points |-> NoThread]

\* Records that overwrite: marked_thread_id_[marked_point] = thread_id.
OverwriteMarkers(point, thread_id) ==
  [q \in Points |->
     IF q \in markers_[point] THEN thread_id ELSE marked_thread_id_[q]]

\* marked_thread_id_.emplace(marked_point, thread_id) for every point that
\* `point` marks: emplace inserts only where there is no record yet.
RecordMarkers(point, thread_id) ==
  [q \in Points |->
     IF q \in markers_[point] /\ marked_thread_id_[q] = NoThread
     THEN thread_id ELSE marked_thread_id_[q]]

\* A marker check that never suppresses.
NeverDisabledByMarker(records, point, thread_id) == FALSE

DisabledByMarker(records, point, thread_id) ==
  records[point] # NoThread /\ thread_id # records[point]

\* A check that is content with one cleared predecessor.
PredecessorsAnyCleared(point) ==
  \/ predecessors_[point] = {}
  \/ \E pred \in predecessors_[point] : pred \in cleared_points_

\* No check at all.
PredecessorsNotChecked(point) == TRUE

\* A check that wants at least one cleared predecessor, so that a point
\* without predecessors never passes.
PredecessorsSomeCleared(point) ==
  \E pred \in predecessors_[point] : pred \in cleared_points_

PredecessorsAllCleared(point) ==
  \A pred \in predecessors_[point] : pred \in cleared_points_

\* A removal that does not look at the counter.
CallbacksNeverRunning == FALSE

CallbacksRunning == num_callbacks_running_ > 0

\* A flag that is never consulted.
ProcessingNeverDisabled == FALSE

\* if (!enabled_)
ProcessingDisabled == ~enabled_

\* A notification that wakes nobody.
NotifyNone(s) == s

\* cv_.notify_all(): every thread parked in cv_.wait becomes runnable.
NotifyAll(s) ==
  [u \in Threads |->
     IF s[u] # <<>> /\ s[u][Len(s[u])].pc = "wait"
     THEN [s[u] EXCEPT ![Len(s[u])].pc = "woken"]
     ELSE s[u]]

\* A callback called with the mutex still held by its caller.
HeldForCallback(t) == t

\* mutex_.unlock() before the callback runs: nobody holds the mutex then.
UnlockForCallback(t) == NoThread

(***************************************************************************)
(* EnableProcessing, DisableProcessing: a store to the atomic flag.        *)
(***************************************************************************)
EnableProcessing(t) ==
  /\ NextInstr(t, Instr("Enable", ""))
  /\ enabled_' = TRUE
  /\ stack' = [stack EXCEPT ![t] = Cont(t)]
  /\ ops' = Count(t)
  /\ UNCHANGED <<num_callbacks_running_, graph, callbacks_, marked_thread_id_,
                 cleared_points_, mutex_, test, last, buf, m>>

DisableProcessing(t) ==
  /\ NextInstr(t, Instr("Disable", ""))
  /\ enabled_' = FALSE
  /\ stack' = [stack EXCEPT ![t] = Cont(t)]
  /\ ops' = Count(t)
  /\ UNCHANGED <<num_callbacks_running_, graph, callbacks_, marked_thread_id_,
                 cleared_points_, mutex_, test, last, buf, m>>

(***************************************************************************)
(* LoadDependencyAndMarkers: under the mutex, drop the graph, the cleared  *)
(* points and the records, install the edges, notify_all.                  *)
(***************************************************************************)
\* A reload that leaves the waiters asleep: no cv_.notify_all().
LoadWithoutNotify(t, g) ==
  /\ NextInstr(t, Instr("Load", g))
  /\ mutex_ = NoThread
  /\ successors_' = LoadedSuccessors(Dependencies(g), Markers(g))
  /\ predecessors_' = LoadedPredecessors(Dependencies(g), Markers(g))
  /\ markers_' = LoadedMarkers(Markers(g))
  /\ cleared_points_' = {}
  /\ marked_thread_id_' = NoRecords
  /\ stack' = [stack EXCEPT ![t] = Cont(t)]
  /\ ops' = Count(t)
  /\ UNCHANGED <<enabled_, num_callbacks_running_, callbacks_, mutex_, test,
                 last, buf, m>>

LoadDependencyAndMarkers(t, g) ==
  /\ NextInstr(t, Instr("Load", g))
  /\ mutex_ = NoThread
  /\ successors_' = LoadedSuccessors(Dependencies(g), Markers(g))
  /\ predecessors_' = LoadedPredecessors(Dependencies(g), Markers(g))
  /\ markers_' = LoadedMarkers(Markers(g))
  /\ cleared_points_' = {}
  /\ marked_thread_id_' = NoRecords
  /\ stack' = NotifyAll([stack EXCEPT ![t] = Cont(t)])
  /\ ops' = Count(t)
  /\ UNCHANGED <<enabled_, num_callbacks_running_, callbacks_, mutex_, test,
                 last, buf, m>>

SetCallBack(t, point) ==
  /\ NextInstr(t, Instr("SetCallBack", point))
  /\ mutex_ = NoThread
  /\ callbacks_' = callbacks_ \cup {point}
  /\ stack' = [stack EXCEPT ![t] = Cont(t)]
  /\ ops' = Count(t)
  /\ UNCHANGED <<enabled_, num_callbacks_running_, graph, marked_thread_id_,
                 cleared_points_, mutex_, test, last, buf, m>>

(***************************************************************************)
(* ClearCallBack, ClearAllCallBacks: under the mutex, wait on cv_ while a  *)
(* callback is running, then erase.  The first pass of the loop is part of *)
(* the call; each later pass follows a wake-up.                            *)
(***************************************************************************)
ClearCallBack(t, point) ==
  /\ NextInstr(t, Instr("ClearCallBack", point))
  /\ mutex_ = NoThread
  /\ IF CallbacksRunning
     THEN /\ stack' = [stack EXCEPT ![t] =
                         Append(Cont(t), RemoveFrame(point, "wait"))]
          /\ UNCHANGED callbacks_
     ELSE /\ callbacks_' = callbacks_ \ {point}
          /\ stack' = [stack EXCEPT ![t] = Cont(t)]
  /\ ops' = Count(t)
  /\ UNCHANGED <<enabled_, num_callbacks_running_, graph, marked_thread_id_,
                 cleared_points_, mutex_, test, last, buf, m>>

ClearCallBackWoken(t) ==
  /\ stack[t] # <<>>
  /\ Top(t).k = "Remove" /\ Top(t).point # "" /\ Top(t).pc = "woken"
  /\ mutex_ = NoThread
  /\ IF CallbacksRunning
     THEN /\ stack' = [stack EXCEPT ![t][Len(stack[t])].pc = "wait"]
          /\ UNCHANGED callbacks_
     ELSE /\ callbacks_' = callbacks_ \ {Top(t).point}
          /\ stack' = [stack EXCEPT ![t] = Pop(@)]
  /\ UNCHANGED <<enabled_, num_callbacks_running_, graph, marked_thread_id_,
                 cleared_points_, mutex_, test, ops, last, buf, m>>

ClearAllCallBacks(t) ==
  /\ NextInstr(t, Instr("ClearAllCallBacks", ""))
  /\ mutex_ = NoThread
  /\ IF CallbacksRunning
     THEN /\ stack' = [stack EXCEPT ![t] =
                         Append(Cont(t), RemoveFrame("", "wait"))]
          /\ UNCHANGED callbacks_
     ELSE /\ callbacks_' = {}
          /\ stack' = [stack EXCEPT ![t] = Cont(t)]
  /\ ops' = Count(t)
  /\ UNCHANGED <<enabled_, num_callbacks_running_, graph, marked_thread_id_,
                 cleared_points_, mutex_, test, last, buf, m>>

ClearAllCallBacksWoken(t) ==
  /\ stack[t] # <<>>
  /\ Top(t).k = "Remove" /\ Top(t).point = "" /\ Top(t).pc = "woken"
  /\ mutex_ = NoThread
  /\ IF CallbacksRunning
     THEN /\ stack' = [stack EXCEPT ![t][Len(stack[t])].pc = "wait"]
          /\ UNCHANGED callbacks_
     ELSE /\ callbacks_' = {}
          /\ stack' = [stack EXCEPT ![t] = Pop(@)]
  /\ UNCHANGED <<enabled_, num_callbacks_running_, graph, marked_thread_id_,
                 cleared_points_, mutex_, test, ops, last, buf, m>>

\* A ClearTrace that also forgets the marker records, as a reload does.
ClearTraceAndRecords(t) ==
  /\ NextInstr(t, Instr("ClearTrace", ""))
  /\ mutex_ = NoThread
  /\ cleared_points_' = {}
  /\ marked_thread_id_' = NoRecords
  /\ stack' = [stack EXCEPT ![t] = Cont(t)]
  /\ ops' = Count(t)
  /\ UNCHANGED <<enabled_, num_callbacks_running_, graph, callbacks_,
                 mutex_, test, last, buf, m>>

ClearTrace(t) ==
  /\ NextInstr(t, Instr("ClearTrace", ""))
  /\ mutex_ = NoThread
  /\ cleared_points_' = {}
  /\ stack' = [stack EXCEPT ![t] = Cont(t)]
  /\ ops' = Count(t)
  /\ UNCHANGED <<enabled_, num_callbacks_running_, graph, callbacks_,
                 marked_thread_id_, mutex_, test, last, buf, m>>

(***************************************************************************)
(* Process.  The call reads enabled_ without the mutex; the rest runs      *)
(* under it, in passes separated by cv_.wait and by the callback.          *)
(***************************************************************************)
\* `return` out of the marker check: the lock is dropped, nothing else done.
Suppressed(t, kind) ==
  /\ stack' = [stack EXCEPT ![t] = Pop(@)]
  /\ last' = Event(kind, t, Top(t).point)
  /\ mutex_' = NoThread
  /\ UNCHANGED <<num_callbacks_running_, cleared_points_, ops>>

\* cv_.wait(lock)
Blocked(t) ==
  /\ stack' = [stack EXCEPT ![t][Len(stack[t])].pc = "wait"]
  /\ mutex_' = NoThread
  /\ UNCHANGED <<num_callbacks_running_, cleared_points_, ops, last>>

\* Past the wait: with a callback registered, count it, unlock and call it;
\* without one, insert the point and notify_all.
Proceed(t) ==
  LET point == Top(t).point IN
  IF point \in callbacks_
  THEN \E body \in Bodies(point) :
         /\ num_callbacks_running_' = num_callbacks_running_ + 1
         /\ mutex_' = UnlockForCallback(t)
         /\ stack' = [stack EXCEPT ![t] =
                        Pop(@) \o <<ProcessFrame(point, "cb"), CodeFrame(body)>>]
         /\ ops' = ops + Len(body)
         /\ UNCHANGED <<cleared_points_, last>>
  ELSE /\ cleared_points_' = cleared_points_ \cup {point}
       /\ stack' = NotifyAll([stack EXCEPT ![t] = Pop(@)])
       /\ mutex_' = NoThread
       /\ UNCHANGED <<num_callbacks_running_, ops, last>>

Process(t, point) ==
  /\ NextInstr(t, Instr("Fire", point))
  /\ IF ProcessingDisabled
     THEN /\ stack' = [stack EXCEPT ![t] = Cont(t)]
          /\ last' = Event("disabled", t, point)
     ELSE /\ stack' = [stack EXCEPT ![t] =
                         Append(Cont(t), ProcessFrame(point, "lock"))]
          /\ UNCHANGED last
  /\ ops' = Count(t)
  /\ UNCHANGED <<coord, mutex_, test, buf, m>>

ProcessLocked(t) ==
  /\ stack[t] # <<>>
  /\ Top(t).k = "Process" /\ Top(t).pc = "lock"
  /\ mutex_ = NoThread
  /\ marked_thread_id_' = RecordMarkers(Top(t).point, t)
  /\ IF DisabledByMarker(marked_thread_id_', Top(t).point, t)
     THEN Suppressed(t, "suppressed")
     ELSE IF ~PredecessorsAllCleared(Top(t).point)
          THEN Blocked(t)
          ELSE Proceed(t)
  /\ UNCHANGED <<enabled_, graph, callbacks_, test, buf, m>>

\* A woken waiter that reads enabled_ again and gives up when it is false.
ProcessWokenChecksEnabled(t) ==
  /\ stack[t] # <<>>
  /\ Top(t).k = "Process" /\ Top(t).pc = "woken"
  /\ mutex_ = NoThread
  /\ IF ~enabled_ \/ DisabledByMarker(marked_thread_id_, Top(t).point, t)
     THEN Suppressed(t, "suppressed_woken")
     ELSE IF ~PredecessorsAllCleared(Top(t).point)
          THEN Blocked(t)
          ELSE Proceed(t)
  /\ UNCHANGED <<enabled_, graph, callbacks_, marked_thread_id_, test, buf, m>>

ProcessWoken(t) ==
  /\ stack[t] # <<>>
  /\ Top(t).k = "Process" /\ Top(t).pc = "woken"
  /\ mutex_ = NoThread
  /\ IF DisabledByMarker(marked_thread_id_, Top(t).point, t)
     THEN Suppressed(t, "suppressed_woken")
     ELSE IF ~PredecessorsAllCleared(Top(t).point)
          THEN Blocked(t)
          ELSE Proceed(t)
  /\ UNCHANGED <<enabled_, graph, callbacks_, marked_thread_id_, test, buf, m>>

\* The callback has returned: mutex_.lock(), count down, insert, notify_all.
\* A return from the callback that uses the predecessors' firings up: the
\* point is inserted and its predecessors are taken out again.
ProcessCallbackReturnConsuming(t) ==
  /\ Len(stack[t]) >= 2
  /\ Top(t).k = "Code" /\ Top(t).prog = <<>>
  /\ stack[t][Len(stack[t]) - 1].k = "Process"
  /\ mutex_ = NoThread
  /\ num_callbacks_running_' = num_callbacks_running_ - 1
  /\ cleared_points_' =
       (cleared_points_ \ predecessors_[stack[t][Len(stack[t]) - 1].point])
         \cup {stack[t][Len(stack[t]) - 1].point}
  /\ stack' = NotifyAll([stack EXCEPT ![t] = Pop(Pop(@))])
  /\ UNCHANGED <<enabled_, graph, callbacks_, marked_thread_id_, mutex_, test,
                 ops, last, buf, m>>

ProcessCallbackReturn(t) ==
  /\ Len(stack[t]) >= 2
  /\ Top(t).k = "Code" /\ Top(t).prog = <<>>
  /\ stack[t][Len(stack[t]) - 1].k = "Process"
  /\ mutex_ = NoThread
  /\ num_callbacks_running_' = num_callbacks_running_ - 1
  /\ cleared_points_' =
       cleared_points_ \cup {stack[t][Len(stack[t]) - 1].point}
  /\ stack' = NotifyAll([stack EXCEPT ![t] = Pop(Pop(@))])
  /\ UNCHANGED <<enabled_, graph, callbacks_, marked_thread_id_, mutex_, test,
                 ops, last, buf, m>>

\* cv_.wait may return without a notification.
SpuriousWakeup(t) ==
  /\ stack[t] # <<>>
  /\ Top(t).pc = "wait"
  /\ stack' = [stack EXCEPT ![t][Len(stack[t])].pc = "woken"]
  /\ UNCHANGED <<coord, mutex_, test, ops, last, buf, m>>

(***************************************************************************)
(* The tests' own steps: their std::mutex m, their writes, a thread        *)
(* function's return.                                                      *)
(***************************************************************************)
LockM(t) ==
  /\ NextInstr(t, Instr("LockM", ""))
  /\ m = NoThread
  /\ m' = t
  /\ stack' = [stack EXCEPT ![t] = Cont(t)]
  /\ UNCHANGED <<coord, mutex_, test, ops, last, buf>>

UnlockM(t) ==
  /\ NextInstr(t, Instr("UnlockM", ""))
  /\ m' = NoThread
  /\ stack' = [stack EXCEPT ![t] = Cont(t)]
  /\ UNCHANGED <<coord, mutex_, test, ops, last, buf>>

Write(t, text) ==
  /\ NextInstr(t, Instr("Write", text))
  /\ buf' = Append(buf, text)
  /\ stack' = [stack EXCEPT ![t] = Cont(t)]
  /\ UNCHANGED <<coord, mutex_, test, ops, last, m>>

WriteSelf(t) ==
  /\ NextInstr(t, Instr("WriteSelf", ""))
  /\ buf' = Append(buf, ThreadName(t))
  /\ stack' = [stack EXCEPT ![t] = Cont(t)]
  /\ UNCHANGED <<coord, mutex_, test, ops, last, m>>

ThreadReturn(t) ==
  /\ Len(stack[t]) = 1
  /\ Top(t).k = "Code" /\ Top(t).prog = <<>>
  /\ stack' = [stack EXCEPT ![t] = <<>>]
  /\ UNCHANGED <<coord, mutex_, test, ops, last, buf, m>>

(***************************************************************************)
(* Specifications.  Spec: two threads call the coordinator freely, from    *)
(* any state a sequential setup leaves.  SpecTests: the threads of one of  *)
(* the tests run their functions.                                          *)
(***************************************************************************)
Init ==
  /\ test = "free"
  /\ enabled_ \in BOOLEAN
  /\ num_callbacks_running_ = 0
  /\ \E g \in GraphNames \cup {"none"} :
       /\ successors_ = LoadedSuccessors(Dependencies(g), Markers(g))
       /\ predecessors_ = LoadedPredecessors(Dependencies(g), Markers(g))
       /\ markers_ = LoadedMarkers(Markers(g))
  /\ callbacks_ \in {{}, {"P", "S"}, FreePoints}
  /\ marked_thread_id_ = NoRecords
  /\ cleared_points_ = {}
  /\ mutex_ = NoThread
  /\ stack = [t \in Threads |-> <<>>]
  /\ ops = 0
  /\ last = NoEvent
  /\ buf = <<>>
  /\ m = NoThread

Step(t) ==
  \/ EnableProcessing(t)
  \/ DisableProcessing(t)
  \/ \E g \in GraphNames : LoadDependencyAndMarkers(t, g)
  \/ \E point \in FreePoints : SetCallBack(t, point)
  \/ \E point \in FreePoints : ClearCallBack(t, point)
  \/ ClearCallBackWoken(t)
  \/ ClearAllCallBacks(t)
  \/ ClearAllCallBacksWoken(t)
  \/ ClearTrace(t)
  \/ \E point \in FreePoints : Process(t, point)
  \/ ProcessLocked(t)
  \/ ProcessWoken(t)
  \/ ProcessCallbackReturn(t)

Next == \E t \in FreeThreads : Step(t) \/ SpuriousWakeup(t)

Spec == Init /\ [][Next]_vars

InitTests ==
  /\ test \in TestNames
  /\ enabled_ = TRUE
  /\ num_callbacks_running_ = 0
  /\ successors_ = LoadedSuccessors(Dependencies(TestGraph(test)),
                                    Markers(TestGraph(test)))
  /\ predecessors_ = LoadedPredecessors(Dependencies(TestGraph(test)),
                                        Markers(TestGraph(test)))
  /\ markers_ = LoadedMarkers(Markers(TestGraph(test)))
  /\ callbacks_ = TestCallbacks(test)
  /\ marked_thread_id_ = NoRecords
  /\ cleared_points_ = {}
  /\ mutex_ = NoThread
  /\ stack = [t \in Threads |->
                IF Program(test, t) = <<>> THEN <<>>
                ELSE <<CodeFrame(Program(test, t))>>]
  /\ ops = 0
  /\ last = NoEvent
  /\ buf = <<>>
  /\ m = NoThread

StepTests(t) ==
  \/ \E point \in Points : ClearCallBack(t, point)
  \/ ClearCallBackWoken(t)
  \/ ClearAllCallBacks(t)
  \/ ClearAllCallBacksWoken(t)
  \/ \E point \in Points : Process(t, point)
  \/ ProcessLocked(t)
  \/ ProcessWoken(t)
  \/ ProcessCallbackReturn(t)
  \/ LockM(t)
  \/ UnlockM(t)
  \/ \E text \in {"Thread1->", "Thread2->", "Thread3->", "End"} : Write(t, text)
  \/ WriteSelf(t)
  \/ ThreadReturn(t)

NextTests == \E t \in Threads : StepTests(t) \/ SpuriousWakeup(t)

\* A runnable thread is eventually scheduled; a spurious wake-up need never
\* happen.
SpecTests ==
  InitTests /\ [][NextTests]_vars /\ \A t \in Threads : WF_vars(StepTests(t))

(***************************************************************************)
(* Shorthands of the properties.                                           *)
(***************************************************************************)
AllReturned == \A t \in Threads : stack[t] = <<>>

\* t is in the locked part of Process, about to run a pass of it.
AtPass(t) ==
  /\ stack[t] # <<>>
  /\ Top(t).k = "Process"
  /\ Top(t).pc \in {"lock", "woken"}

\* The frames of t that are Process calls whose callback is running.
InCallback(t) ==
  {i \in 1..Len(stack[t]) :
     stack[t][i].k = "Process" /\ stack[t][i].pc = "cb"}

IsPrefix(a, b) == Len(a) <= Len(b) /\ a = SubSeq(b, 1, Len(a))

RECURSIVE AncestorsWithin(_, _)
AncestorsWithin(ps, n) ==
  IF n = 0 THEN ps
  ELSE AncestorsWithin(ps \cup UNION {predecessors_[q] : q \in ps}, n - 1)

\* The direct and transitive predecessors of p in the loaded graph.
Ancestors(p) == AncestorsWithin(predecessors_[p], Cardinality(Points))

(***************************************************************************)
(* C1.  Direct ordering: whenever a Process call on a point gets past the  *)
(* predecessor wait (it starts the point's callback, or inserts the point  *)
(* into the cleared points), every predecessor of the point in the loaded  *)
(* graph is in the cleared points at that moment.                          *)
(***************************************************************************)
PastWait(t) ==
  /\ AtPass(t)
  /\ stack'[t] # stack[t]
  /\ \/ /\ Len(stack'[t]) = Len(stack[t]) + 1
        /\ stack'[t][Len(stack[t])] = ProcessFrame(Top(t).point, "cb")
     \/ /\ stack'[t] = Pop(stack[t])
        /\ marked_thread_id_'[Top(t).point] \in {NoThread, t}

C1_DirectOrdering ==
  [][\A t \in Threads :
       PastWait(t) =>
         \A pred \in Points :
           pred \in predecessors_[Top(t).point] => pred \in cleared_points_]_vars

\* A callback is running for a point that has predecessors, all cleared.
C1_Witness ==
  \E t \in FreeThreads : \E i \in InCallback(t) :
    /\ Cardinality(predecessors_[stack[t][i].point]) = 2
    /\ predecessors_[stack[t][i].point] \subseteq cleared_points_

(***************************************************************************)
(* C2.  Transitive happens-before, with the graph loaded before the        *)
(* threads start: while a point's callback runs, every direct or           *)
(* transitive predecessor of the point has been cleared; and the           *)
(* Dependency test writes Thread3, Thread2, Thread1, End in that order in  *)
(* every interleaving (the chain's callbacks run in the order P, S, X).    *)
(***************************************************************************)
ExpectedOrder == <<"Thread3->", "Thread2->", "Thread1->", "End">>

C2_HappensBefore ==
  /\ \A t \in Threads : \A i \in InCallback(t) :
       Ancestors(stack[t][i].point) \subseteq cleared_points_
  /\ test \in {"Dependency", "Chain"} =>
       /\ IsPrefix(buf, ExpectedOrder)
       /\ AllReturned => Len(buf) = IF test = "Chain" THEN 3 ELSE 4

C2_Witness ==
  /\ test = "Dependency"
  /\ AllReturned
  /\ buf = ExpectedOrder
  /\ cleared_points_ = Points

(***************************************************************************)
(* C3.  Marker thread affinity (DependencyAndMark1: marker edge from       *)
(* Mark1Thread1 to DummyCommon; thread 1 fires both, thread 2 fires        *)
(* DummyCommon): thread 2's firing is suppressed, it never runs the        *)
(* callback, whether it reaches DummyCommon before or after thread 1 fires *)
(* the marker; thread 1's firing runs the callback and clears the point.   *)
(***************************************************************************)
C3_MarkerAffinity ==
  test = "Mark1" =>
    /\ IsPrefix(buf, <<"Thread1->">>)
    /\ \A i \in 1..Len(stack[2]) :
         stack[2][i].k = "Process" => stack[2][i].pc \in {"lock", "wait", "woken"}
    /\ (stack[2] = <<>> \/ stack[2] = <<CodeFrame(<<>>)>>) =>
         last \in {Event("suppressed", 2, "DummyCommon"),
                   Event("suppressed_woken", 2, "DummyCommon")}
    /\ AllReturned =>
         /\ buf = <<"Thread1->">>
         /\ cleared_points_ = {"Mark1Thread1", "DummyCommon"}
         /\ marked_thread_id_["DummyCommon"] = 1

\* Thread 2 reached DummyCommon first, blocked, and was suppressed on
\* wake-up; thread 1 then ran the callback.
C3_Witness ==
  /\ test = "Mark1"
  /\ AllReturned
  /\ last = Event("suppressed_woken", 2, "DummyCommon")
  /\ buf = <<"Thread1->">>

(***************************************************************************)
(* C4.  Suppression of a waiter that is already blocked (the test          *)
(* DependencyAndMark2): thread 1, blocked in Process(MarkedPoint) before   *)
(* any marking, is suppressed when thread 2's firing of Marker wakes it;   *)
(* in every fair interleaving both threads return and the callback of      *)
(* MarkedPoint has run exactly once, on thread 2.                          *)
(***************************************************************************)
C4_BlockedWaiterSuppressed ==
  <>[](test = "Mark2" =>
         /\ AllReturned
         /\ buf = <<"Thread2->">>
         /\ "MarkedPoint" \in cleared_points_)

\* Thread 1 was blocked first and suppressed on wake-up; both have returned.
C4_Witness ==
  /\ test = "Mark2"
  /\ AllReturned
  /\ last = Event("suppressed_woken", 1, "MarkedPoint")
  /\ buf = <<"Thread2->">>

(***************************************************************************)
(* C5.  Removal is guarded by the in-flight counter: a step removes a      *)
(* callback from the registry, and a blocked ClearCallBack or              *)
(* ClearAllCallBacks returns, only when no callback is running; every      *)
(* running callback's point stays registered; a callback is invoked only   *)
(* for a point that is registered at that moment; and SetCallBack is       *)
(* never blocked by a running callback.                                    *)
(***************************************************************************)
RunningAreRegistered ==
  \A t \in Threads : \A i \in InCallback(t) : stack[t][i].point \in callbacks_

C5_RemovalGuarded ==
  [][/\ (\E p \in callbacks_ : p \notin callbacks_') =>
          num_callbacks_running_ = 0
     /\ \A t \in Threads :
          (stack[t] # <<>> /\ Top(t).k = "Remove" /\ stack'[t] = Pop(stack[t]))
            => num_callbacks_running_ = 0
     /\ \A t \in Threads :
          (AtPass(t) /\ Len(stack'[t]) = Len(stack[t]) + 1)
            => Top(t).point \in callbacks_
     /\ RunningAreRegistered'
     /\ \A t \in FreeThreads :
          (num_callbacks_running_ > 0 /\ stack[t] = <<>> /\ ops < MaxOps)
            => ENABLED SetCallBack(t, "P")]_vars

\* ClearCallBack of a point is parked while that point's callback runs, and
\* the callback is still registered.
C5_Witness ==
  \E t, u \in FreeThreads :
    /\ stack[t] # <<>> /\ Top(t).k = "Remove" /\ Top(t).pc = "wait"
    /\ \E i \in InCallback(u) : stack[u][i].point = Top(t).point
    /\ Top(t).point \in callbacks_
    /\ num_callbacks_running_ = 1

(***************************************************************************)
(* C6.  Disabled processing is a no-op: while enabled_ is false no thread  *)
(* enters Process (so none blocks and no callback is started), and the     *)
(* call returns with the cleared points, the marker records, the registry, *)
(* the counter, the graph and every other thread untouched.                *)
(***************************************************************************)
NumProcess(s) == Cardinality({i \in 1..Len(s) : s[i].k = "Process"})

C6_DisabledNoOp ==
  [][/\ ~enabled_ =>
          \A t \in Threads : NumProcess(stack'[t]) <= NumProcess(stack[t])
     /\ (last' # last /\ last'.kind = "disabled") =>
          /\ ~enabled_
          /\ UNCHANGED <<coord, mutex_>>
          /\ \A u \in Threads \ {last'.thread} : stack'[u] = stack[u]
          /\ Len(stack'[last'.thread]) <= Len(stack[last'.thread])]_vars

\* A disabled firing of a point that has an uncleared predecessor, marks
\* other points and has a callback: it returned and left no record.
C6_Witness ==
  /\ last.kind = "disabled"
  /\ ~enabled_
  /\ stack[last.thread] = <<>>
  /\ ~(predecessors_[last.point] \subseteq cleared_points_)
  /\ markers_[last.point] # {}
  /\ \A q \in markers_[last.point] : marked_thread_id_[q] = NoThread
  /\ last.point \in callbacks_
  /\ num_callbacks_running_ = 0

(***************************************************************************)
(* C7.  The marking that wins.  As claimed: every enabled firing of a      *)
(* marker predecessor records the calling thread for each point it marks,  *)
(* overwriting any earlier record (the most recent marking wins).          *)
(***************************************************************************)
EntryPass(t) ==
  /\ stack[t] # <<>>
  /\ Top(t).k = "Process"
  /\ Top(t).pc = "lock"
  /\ stack'[t] # stack[t]

C8_CallbackUnlocked ==
  \A t \in FreeThreads :
    InCallback(t) # {} =>
      /\ mutex_ = NoThread
      /\ (Top(t).k = "Process" /\ Top(t).pc = "lock") => ENABLED ProcessLocked(t)
      /\ \A u \in FreeThreads \ {t} :
           /\ (stack[u] # <<>> /\ Top(u).k = "Process" /\ Top(u).pc = "lock")
                => ENABLED ProcessLocked(u)
           /\ (stack[u] = <<>> /\ ops < MaxOps) =>
                /\ ENABLED SetCallBack(u, "X")
                /\ ENABLED ClearTrace(u)
                /\ ENABLED LoadDependencyAndMarkers(u, "chain")
                /\ ENABLED Process(u, "X")

\* A callback fired another point, whose own callback is now running.
C8_Witness ==
  \E t \in FreeThreads :
    /\ Cardinality(InCallback(t)) = 2
    /\ stack[t][1].point # stack[t][3].point
    /\ num_callbacks_running_ = 2

(***************************************************************************)
(* C9.  As claimed: a callback that calls a coordinator operation other    *)
(* than Process gets its call back, so no thread is ever parked in such a  *)
(* call while its own callback is running.                                 *)
(***************************************************************************)
ParkedInOwnCallback(t) ==
  /\ InCallback(t) # {}
  /\ Top(t).k = "Remove"

C9_CallbackCallsReturn == \A t \in Threads : ~ParkedInOwnCallback(t)

(***************************************************************************)
(* C9, amended.  A callback's call of SetCallBack, ClearTrace,             *)
(* LoadDependencyAndMarkers, EnableProcessing or DisableProcessing is      *)
(* never blocked and returns in the same step; a callback's call of        *)
(* ClearCallBack or ClearAllCallBacks never returns: the caller's own      *)
(* callback keeps the counter above zero, and the thread stays parked.     *)
(***************************************************************************)
NextCall(t) == Head(Top(t).prog)

C9_OnlyRemovalSelfDeadlocks ==
  [][\A t \in FreeThreads :
       /\ (InCallback(t) # {} /\ Top(t).k = "Code" /\ Top(t).prog # <<>>) =>
            /\ NextCall(t).op = "SetCallBack" =>
                 ENABLED SetCallBack(t, NextCall(t).arg)
            /\ NextCall(t).op = "ClearTrace" => ENABLED ClearTrace(t)
            /\ NextCall(t).op = "Load" =>
                 ENABLED LoadDependencyAndMarkers(t, NextCall(t).arg)
            /\ NextCall(t).op = "Enable" => ENABLED EnableProcessing(t)
            /\ NextCall(t).op = "Disable" => ENABLED DisableProcessing(t)
            /\ (NextCall(t).op \in {"ClearCallBack", "ClearAllCallBacks"}
                  /\ stack'[t] # stack[t]) =>
                 ParkedInOwnCallback(t)'
            /\ (NextCall(t).op \notin {"Fire", "ClearCallBack", "ClearAllCallBacks"}
                  /\ stack'[t] # stack[t]) =>
                 stack'[t] = Append(Pop(stack[t]), CodeFrame(<<>>))
       /\ ParkedInOwnCallback(t) => ParkedInOwnCallback(t)']_vars

\* A thread woken inside the removal it called from its own callback, the
\* only callback running: it will park again.
C9_Witness ==
  \E t \in FreeThreads :
    /\ ParkedInOwnCallback(t)
    /\ Top(t).pc = "woken"
    /\ num_callbacks_running_ = 1
    /\ \A u \in FreeThreads \ {t} : stack[u] = <<>>

(***************************************************************************)
(* C10.  As claimed: a suppressed firing leaves no trace, the marker       *)
(* records included, for every point.                                      *)
(***************************************************************************)
SuppressedPass(t) ==
  /\ AtPass(t)
  /\ stack'[t] # stack[t]
  /\ marked_thread_id_[Top(t).point] \notin {NoThread, t}

OthersUntouched(t) == \A u \in Threads \ {t} : stack'[u] = stack[u]

C10_SuppressedLeavesNoTrace ==
  [][\A t \in Threads :
       SuppressedPass(t) =>
         /\ stack'[t] = Pop(stack[t])
         /\ OthersUntouched(t)
         /\ UNCHANGED <<cleared_points_, marked_thread_id_, callbacks_,
                        num_callbacks_running_>>]_vars

(***************************************************************************)
(* C10, amended.  A suppressed firing returns with the cleared points, the *)
(* registry and the counter unchanged, runs no callback and wakes no       *)
(* waiter; the marker records are unchanged except that a firing           *)
(* suppressed on entry has first recorded the calling thread for every     *)
(* point it marks that had no record.                                      *)
(***************************************************************************)
C10_SuppressedKeepsOwnMarks ==
  [][\A t \in Threads :
       SuppressedPass(t) =>
         /\ stack'[t] = Pop(stack[t])
         /\ OthersUntouched(t)
         /\ UNCHANGED <<cleared_points_, callbacks_, num_callbacks_running_,
                        graph, enabled_, mutex_>>
         /\ \A q \in Points :
              marked_thread_id_'[q] =
                IF /\ Top(t).pc = "lock"
                   /\ q \in markers_[Top(t).point]
                   /\ marked_thread_id_[q] = NoThread
                THEN t ELSE marked_thread_id_[q]]_vars

\* A firing of S was suppressed on entry and has left the caller recorded
\* for X, the point S marks; S itself was never cleared.
C10_Witness ==
  /\ last.kind = "suppressed"
  /\ stack[last.thread] = <<>>
  /\ marked_thread_id_[last.point] \notin {NoThread, last.thread}
  /\ markers_[last.point] # {}
  /\ \A q \in markers_[last.point] : marked_thread_id_[q] = last.thread
  /\ last.point \notin cleared_points_

(***************************************************************************)
(* C11.  LoadDependencyAndMarkers replaces the graph in one step: after it *)
(* the successor index holds exactly the given dependency and marker       *)
(* edges, the predecessor index the same edges reversed, the marker index  *)
(* exactly the marker edges, and the cleared points and marker records are *)
(* empty; the registry, the flag and the counter are unchanged.  No other  *)
(* step changes the graph, and in every state the indices agree with each  *)
(* other (no partially loaded graph is ever observable).                   *)
(***************************************************************************)
EdgesOf(index) == {e \in Points \X Points : e[2] \in index[e[1]]}

Reversed(edges) == {<<e[2], e[1]>> : e \in edges}

GraphComplete ==
  /\ EdgesOf(predecessors_) = Reversed(EdgesOf(successors_))
  /\ EdgesOf(markers_) \subseteq EdgesOf(successors_)

C11_AtomicReplace ==
  /\ []GraphComplete
  /\ [][/\ \A t \in Threads : \A g \in GraphNames :
            LoadDependencyAndMarkers(t, g) =>
              /\ EdgesOf(successors_') = Dependencies(g) \cup Markers(g)
              /\ EdgesOf(predecessors_') =
                   Reversed(Dependencies(g) \cup Markers(g))
              /\ EdgesOf(markers_') = Markers(g)
              /\ cleared_points_' = {}
              /\ \A q \in Points : marked_thread_id_'[q] = NoThread
              /\ UNCHANGED <<callbacks_, enabled_, num_callbacks_running_>>
       /\ graph' # graph =>
            \E t \in Threads : \E g \in GraphNames :
              LoadDependencyAndMarkers(t, g)]_vars

\* The callback of S is running under the marker graph with nothing cleared
\* and nothing recorded: the graph was loaded after S got past its wait.
C11_Witness ==
  /\ \E t \in FreeThreads : \E i \in InCallback(t) : stack[t][i].point = "S"
  /\ markers_["P"] = {"S"}
  /\ predecessors_["S"] = {"P", "X"}
  /\ successors_["P"] = {"S"}
  /\ cleared_points_ = {}
  /\ \A q \in Points : marked_thread_id_[q] = NoThread

(***************************************************************************)
(* C12.  ClearTrace empties the cleared points and nothing else: the       *)
(* graph, the registry, the marker records, the flag and the counter are   *)
(* unchanged and no waiter is woken.  With the cleared points empty the    *)
(* graph replays: a Process call that checks a point with predecessors     *)
(* blocks (or is suppressed by a marker), it does not get past the wait.   *)
(***************************************************************************)
BlocksOrSuppressed(t) ==
  \/ stack'[t] = [stack[t] EXCEPT ![Len(stack[t])].pc = "wait"]
  \/ /\ stack'[t] = Pop(stack[t])
     /\ marked_thread_id_'[Top(t).point] \notin {NoThread, t}

C12_ClearTraceOnlyCleared ==
  [][/\ \A t \in Threads :
          ClearTrace(t) =>
            /\ cleared_points_' = {}
            /\ UNCHANGED <<graph, callbacks_, marked_thread_id_, enabled_,
                           num_callbacks_running_, mutex_>>
            /\ OthersUntouched(t)
     /\ \A t \in Threads :
          (/\ AtPass(t)
           /\ stack'[t] # stack[t]
           /\ cleared_points_ = {}
           /\ predecessors_[Top(t).point] # {}) => BlocksOrSuppressed(t)]_vars

\* Thread t fired P, which marked S for t and was cleared; ClearTrace then
\* emptied the cleared points and kept the record; t's firing of S blocks.
C12_Witness ==
  \E t \in FreeThreads :
    /\ stack[t] = <<ProcessFrame("S", "wait")>>
    /\ "P" \in predecessors_["S"]
    /\ marked_thread_id_["S"] = t
    /\ cleared_points_ = {}
    /\ \A u \in FreeThreads \ {t} : stack[u] = <<>>

(***************************************************************************)
(* C13.  The cleared flag is monotone: a step in which some point leaves   *)
(* the cleared points is a LoadDependencyAndMarkers or a ClearTrace; no    *)
(* firing (repeated or suppressed), SetCallBack, ClearCallBack,            *)
(* ClearAllCallBacks, EnableProcessing or DisableProcessing removes a      *)
(* point.  So a point whose predecessors are all cleared keeps them        *)
(* cleared for every later firing, until one of those two calls.           *)
(***************************************************************************)
ResetStep ==
  \E t \in Threads :
    \/ ClearTrace(t)
    \/ \E g \in GraphNames : LoadDependencyAndMarkers(t, g)

C13_ClearedMonotone ==
  [][/\ ~(cleared_points_ \subseteq cleared_points_') => ResetStep
     /\ ~ResetStep =>
          \A p \in Points :
            PredecessorsAllCleared(p) => PredecessorsAllCleared(p)']_vars

\* P was fired once; S, its successor, is fired a second time while the
\* first firing's callback still runs, and both got past the wait.
C13_Witness ==
  /\ predecessors_["S"] = {"P"}
  /\ "P" \in cleared_points_
  /\ \A t \in FreeThreads : \E i \in InCallback(t) : stack[t][i].point = "S"

(***************************************************************************)
(* C14.  A point in no dependency or marker edge never blocks: it has no   *)
(* marker record and no thread waits on it; a Process call that has found  *)
(* processing enabled can always take its pass on such a point, and the    *)
(* pass starts the registered callback (once, counted) or, with none       *)
(* registered, inserts the point and returns; the return from a callback   *)
(* inserts the point and returns from Process.  This holds whatever the    *)
(* other thread and the other points are doing.                            *)
(***************************************************************************)
Isolated(p) == predecessors_[p] = {} /\ successors_[p] = {} /\ markers_[p] = {}

NoIsolatedWaits ==
  /\ \A p \in Points : Isolated(p) => marked_thread_id_[p] = NoThread
  /\ \A t \in Threads : \A i \in 1..Len(stack[t]) :
       (stack[t][i].k = "Process" /\ stack[t][i].pc = "wait")
         => ~Isolated(stack[t][i].point)

AfterCallback(t) ==
  /\ Len(stack[t]) >= 2
  /\ Top(t).k = "Code" /\ Top(t).prog = <<>>
  /\ stack[t][Len(stack[t]) - 1].k = "Process"

C14_IsolatedNeverBlocks ==
  /\ []NoIsolatedWaits
  /\ [][\A t \in Threads :
          /\ (AtPass(t) /\ Isolated(Top(t).point)) =>
               /\ ENABLED (ProcessLocked(t) \/ ProcessWoken(t))
               /\ stack'[t] # stack[t] =>
                    IF Top(t).point \in callbacks_
                    THEN /\ Len(stack'[t]) = Len(stack[t]) + 1
                         /\ stack'[t][Len(stack[t])] =
                              ProcessFrame(Top(t).point, "cb")
                         /\ stack'[t][Len(stack[t]) + 1].k = "Code"
                         /\ num_callbacks_running_' = num_callbacks_running_ + 1
                    ELSE /\ stack'[t] = Pop(stack[t])
                         /\ cleared_points_' =
                              cleared_points_ \cup {Top(t).point}
          /\ (AfterCallback(t) /\ stack'[t] # stack[t]) =>
               /\ stack'[t] = Pop(Pop(stack[t]))
               /\ stack[t][Len(stack[t]) - 1].point \in cleared_points_'
               /\ num_callbacks_running_' = num_callbacks_running_ - 1]_vars

\* The callback of a point that is in no edge runs while the other thread
\* is blocked on a point that waits for itself.
C14_Witness ==
  \E t, u \in FreeThreads :
    /\ stack[u] = <<ProcessFrame("X", "wait")>>
    /\ "X" \in predecessors_["X"]
    /\ \E i \in InCallback(t) : Isolated(stack[t][i].point)

(***************************************************************************)
(* C15.  No lost wake-up on clearing: a thread is parked in Process only   *)
(* while some predecessor of its point is uncleared; a step that inserts a *)
(* point leaves no thread parked (notify_all reaches every waiter); and,   *)
(* with every runnable thread eventually scheduled and no reset of the     *)
(* cleared points, a thread in the predecessor wait whose predecessors are *)
(* all cleared eventually leaves the wait.                                 *)
(***************************************************************************)
InWait(t) ==
  /\ stack[t] # <<>>
  /\ Top(t).k = "Process"
  /\ Top(t).pc \in {"wait", "woken"}

Parked(t) == stack[t] # <<>> /\ Top(t).pc = "wait"

ParkedOnlyWhileUncleared ==
  \A t \in Threads :
    (Parked(t) /\ Top(t).k = "Process") => ~PredecessorsAllCleared(Top(t).point)

C15_NoLostWakeup ==
  /\ []ParkedOnlyWhileUncleared
  /\ [][cleared_points_' # cleared_points_ =>
          \A u \in Threads : ~Parked(u)']_vars
  /\ \A t \in Threads :
       (InWait(t) /\ PredecessorsAllCleared(Top(t).point)) ~> ~InWait(t)

\* The main thread of the Dependency test, blocked on Step6, has been woken
\* by the clearing of Step5.
C15_Witness ==
  /\ test = "Dependency"
  /\ stack[4] = <<CodeFrame(<<>>), ProcessFrame("Step6", "woken")>>
  /\ "Step5" \in cleared_points_

(***************************************************************************)
(* C16.  Removal eventually returns: a ClearCallBack or ClearAllCallBacks  *)
(* call is parked only while a callback is running; the step that counts a *)
(* callback down leaves no thread parked; and, with every runnable thread  *)
(* eventually scheduled, a removal that finds no callback running returns. *)
(* In the Remove scenario (two callbacks running, two removers) every      *)
(* thread returns and the registry ends up empty.                          *)
(***************************************************************************)
InRemove(t) == stack[t] # <<>> /\ Top(t).k = "Remove"

RemoverParkedOnlyWhileRunning ==
  \A t \in Threads :
    (InRemove(t) /\ Top(t).pc = "wait") => num_callbacks_running_ > 0

C16_RemovalReturns ==
  /\ []RemoverParkedOnlyWhileRunning
  /\ [][num_callbacks_running_' < num_callbacks_running_ =>
          \A u \in Threads : ~Parked(u)']_vars
  /\ \A t \in Threads :
       (InRemove(t) /\ num_callbacks_running_ = 0) ~> ~InRemove(t)
  /\ <>[](test = "Remove" => (AllReturned /\ callbacks_ = {}))

\* Both removers were parked behind the two callbacks, both callbacks have
\* run and returned, and both removers have been woken.
C16_Witness ==
  /\ test = "Remove"
  /\ InRemove(2) /\ Top(2).pc = "woken"
  /\ InRemove(3) /\ Top(3).pc = "woken"
  /\ num_callbacks_running_ = 0
  /\ Len(buf) = 2
  /\ callbacks_ = {"P", "X"}

(***************************************************************************)
(* C17.  A reload re-evaluates the waits in progress: the step of          *)
(* LoadDependencyAndMarkers turns every thread parked in Process into a    *)
(* woken one; and a woken waiter decides on the state it finds: it returns *)
(* if the point's record names another thread, else it gets past the wait  *)
(* if every predecessor of the point in the graph now loaded is cleared,   *)
(* and else it parks again.                                                *)
(***************************************************************************)
WokenPass(t) ==
  /\ stack[t] # <<>>
  /\ Top(t).k = "Process"
  /\ Top(t).pc = "woken"
  /\ stack'[t] # stack[t]

GetsPastWait(t) ==
  \/ /\ Len(stack'[t]) = Len(stack[t]) + 1
     /\ stack'[t][Len(stack[t])] = ProcessFrame(Top(t).point, "cb")
  \/ /\ stack'[t] = Pop(stack[t])
     /\ Top(t).point \in cleared_points_'

C17_ReloadRechecksWaits ==
  [][/\ \A t \in Threads : \A g \in GraphNames :
          LoadDependencyAndMarkers(t, g) =>
            \A u \in Threads \ {t} :
              IF InWait(u) \/ Parked(u)
              THEN stack'[u] = [stack[u] EXCEPT ![Len(stack[u])].pc = "woken"]
              ELSE stack'[u] = stack[u]
     /\ \A t \in Threads :
          WokenPass(t) =>
            IF marked_thread_id_[Top(t).point] \notin {NoThread, t}
            THEN /\ stack'[t] = Pop(stack[t])
                 /\ UNCHANGED <<cleared_points_, num_callbacks_running_>>
            ELSE IF predecessors_[Top(t).point] \subseteq cleared_points_
                 THEN GetsPastWait(t)
                 ELSE stack'[t] =
                        [stack[t] EXCEPT ![Len(stack[t])].pc = "wait"]]_vars

\* A thread that blocked on a point under one graph has been woken by the
\* load of a graph in which the point has no predecessors.
C17_Witness ==
  \E t \in FreeThreads :
    /\ Len(stack[t]) = 1
    /\ Top(t).k = "Process"
    /\ Top(t).pc = "woken"
    /\ predecessors_[Top(t).point] = {}
    /\ cleared_points_ = {}

(***************************************************************************)
(* C18.  As claimed: with a graph that has a dependency cycle loaded and   *)
(* no reload, no point on the cycle is ever added to the cleared points.   *)
(***************************************************************************)
OnCycle(p) == p \in Ancestors(p)

C18_CycleNeverCleared ==
  [][graph' = graph =>
       \A p \in Points :
         (OnCycle(p) /\ p \notin cleared_points_) => p \notin cleared_points_']_vars

(***************************************************************************)
(* C18, amended.  A Process call that checks a point with an uncleared     *)
(* predecessor parks (or is suppressed by a marker) and stays in the wait  *)
(* while the predecessor is uncleared: it never returns with an error or   *)
(* after a time.  The points on a cycle stay uncleared, and so their       *)
(* waiters wait for ever, from any state in which no point on the cycle is *)
(* cleared and no callback of a point on the cycle is running, until the   *)
(* next reload; a reload that runs while no such callback is running       *)
(* leaves such a state.  (A callback already running for a point when the  *)
(* cycle is loaded still ends with the insertion of that point.)           *)
(***************************************************************************)
CycleIntact ==
  \A p \in Points :
    OnCycle(p) =>
      /\ p \notin cleared_points_
      /\ \A t \in Threads : \A i \in InCallback(t) : stack[t][i].point # p

HasUnclearedPredecessor(p) ==
  \E pred \in Points : pred \in predecessors_[p] /\ pred \notin cleared_points_

C18_CycleBlocksForever ==
  [][/\ (CycleIntact /\ graph' = graph) => CycleIntact'
     /\ (graph' # graph /\ \A t \in Threads : \A i \in InCallback(t) :
                              ~OnCycle(stack[t][i].point)') => CycleIntact'
     /\ \A t \in Threads :
          /\ (/\ AtPass(t)
              /\ stack'[t] # stack[t]
              /\ HasUnclearedPredecessor(Top(t).point)) => BlocksOrSuppressed(t)
          /\ (/\ InWait(t)
              /\ HasUnclearedPredecessor(Top(t).point)
              /\ marked_thread_id_[Top(t).point] \in {NoThread, t}) =>
               /\ InWait(t)'
               /\ Len(stack'[t]) = Len(stack[t])]_vars

\* Both threads are blocked on the two points of the cycle P -> S -> P,
\* one of them parked again after a wake-up; nothing is cleared.
C18_Witness ==
  /\ "S" \in predecessors_["P"] /\ "P" \in predecessors_["S"]
  /\ stack[1] = <<ProcessFrame("P", "wait")>>
  /\ stack[2] = <<ProcessFrame("S", "woken")>>
  /\ cleared_points_ = {}
  /\ CycleIntact

(***************************************************************************)
(* C19.  As claimed: in every reachable state every cleared point has all  *)
(* its predecessors in the loaded graph cleared as well.                   *)
(***************************************************************************)
C19_PredecessorClosed ==
  \A p \in cleared_points_ : predecessors_[p] \subseteq cleared_points_

(***************************************************************************)
(* C19, amended.  The cleared points stay predecessor-closed except for    *)
(* the insertion that ends a callback begun before a reset: a callback     *)
(* starts only with its point's predecessors all cleared; the running      *)
(* callback's point comes to have an uncleared predecessor only by a       *)
(* LoadDependencyAndMarkers or a ClearTrace; and the closure is broken     *)
(* only by the return of such a callback, which inserts its point though   *)
(* a predecessor is uncleared.                                             *)
(***************************************************************************)
Stale(t, i) == HasUnclearedPredecessor(stack[t][i].point)

C19_ClosedUnlessResetDuringCallback ==
  [][/\ (C19_PredecessorClosed /\ ~C19_PredecessorClosed') =>
          \E t \in Threads :
            /\ AfterCallback(t)
            /\ stack'[t] = Pop(Pop(stack[t]))
            /\ Stale(t, Len(stack[t]) - 1)
     /\ \A t \in Threads :
          /\ \A i \in InCallback(t)' : i \notin InCallback(t) => ~Stale(t, i)'
          /\ \A i \in InCallback(t) :
               (~Stale(t, i) /\ i \in InCallback(t)' /\ Stale(t, i)')
                 => ResetStep]_vars

\* S is cleared and its predecessor P is not: ClearTrace (or a reload) ran
\* while the callback of S was running, and the callback has returned.
C19_Witness ==
  /\ "P" \in predecessors_["S"]
  /\ "S" \in cleared_points_
  /\ "P" \notin cleared_points_
  /\ \A t \in Threads : stack[t] = <<>>

(***************************************************************************)
(* C20.  The flag is read on entry only.  DisableProcessing changes        *)
(* nothing but the flag: no thread inside Process is woken or sent back.   *)
(* With processing disabled, a thread already inside Process goes on as it *)
(* would have: its pass parks it while a predecessor is uncleared, gets it *)
(* past the wait once they are all cleared (starting the callback or       *)
(* inserting the point), and the return from its callback inserts the      *)
(* point; and a thread leaves Process only by a step of its own.           *)
(***************************************************************************)
C20_EnabledReadOnEntry ==
  [][\A t \in Threads :
       /\ DisableProcessing(t) =>
            /\ UNCHANGED <<num_callbacks_running_, graph, callbacks_,
                           marked_thread_id_, cleared_points_, mutex_>>
            /\ OthersUntouched(t)
       /\ (~enabled_ /\ AtPass(t) /\ stack'[t] # stack[t]) =>
            IF marked_thread_id_'[Top(t).point] \notin {NoThread, t}
            THEN stack'[t] = Pop(stack[t])
            ELSE IF predecessors_[Top(t).point] \subseteq cleared_points_
                 THEN GetsPastWait(t)
                 ELSE stack'[t] =
                        [stack[t] EXCEPT ![Len(stack[t])].pc = "wait"]
       /\ (~enabled_ /\ AfterCallback(t) /\ stack'[t] # stack[t]) =>
            /\ stack'[t] = Pop(Pop(stack[t]))
            /\ stack[t][Len(stack[t]) - 1].point \in cleared_points_'
       /\ NumProcess(stack'[t]) < NumProcess(stack[t]) =>
            AtPass(t) \/ AfterCallback(t)]_vars

\* Processing was disabled while a thread was blocked on S; its predecessor
\* has since been cleared and the thread, woken, is about to go on.
C20_Witness ==
  \E t \in FreeThreads :
    /\ ~enabled_
    /\ stack[t] = <<ProcessFrame("S", "woken")>>
    /\ predecessors_["S"] = {"P"}
    /\ "P" \in cleared_points_
    /\ "S" \in callbacks_
    /\ marked_thread_id_["S"] = NoThread

====
